---- MODULE Spec2Model ----
(***************************************************************************)
(* A model of the voice-streaming client of 07-voice-orchestration/voice.py *)
(*                                                                         *)
(*  - Spec / FairSpec: AgentVoice.connect and the three asyncio tasks it   *)
(*    races (listen_and_send_audio, receive_audio_and_playback,            *)
(*    read_keyboard_and_quit) on one single-threaded event loop.           *)
(*  - SpecPlayer: one AudioPlayerAsync, its control-thread operations      *)
(*    (add_data, stop) and the audio thread's pull callback.               *)
(*  - SpecLock: the same player statement by statement, with the holder of *)
(*    its threading.Lock explicit.                                         *)
(*  - SpecRecv: the dispatch loop of receive_audio_and_playback over the   *)
(*    content of the inbound payloads.                                     *)
(*  - SpecChannel: AsyncVoiceLiveConnection.send called by two coroutines. *)
(*  - SpecCapture: the capture loop of listen_and_send_audio over numbered *)
(*    frames.                                                              *)
(*  - SpecClient: AsyncAzureVoiceLive, its constructor over all argument   *)
(*    and environment combinations, and its connect().                     *)
(*  - SpecJson: AsyncVoiceLiveSessionResource.update over the session      *)
(*    values its Session type admits.                                      *)
(*  - SpecRunner: notebook_test_runner.py, main() over the notebooks found, *)
(*    how each one's execution ends, and where --root-path lies.           *)
(***************************************************************************)
EXTENDS Integers, Sequences, FiniteSets, TLC

\* ------------------------------------------------------------------ bounds
\* Full capture frames the input device buffers before it overruns.
MaxAvail == 2
\* Inbound messages the transport buffers unread.
MaxInbox == 2
\* Samples pushed to one player over a run.
MaxSamples == 4
\* Samples in one pushed chunk (0: an empty payload).
MaxChunk == 3
\* Frame count of one pull of the output device.
MaxFrames == 3
\* Samples (padding included) the output device pulls over a run.
MaxOut == 6
\* Chunks waiting in the playback queue.
MaxQueue == 3
\* Inbound payloads one dispatch loop receives over a run.
MaxEvents == 4
\* Messages each caller of AsyncVoiceLiveConnection.send sends over a run.
MaxSends == 3
\* Frames the input device captures over a run.
MaxCaptured == 6
\* connect() calls made on one client over a run.
MaxCalls == 3
\* Connection objects a run can hold.
MaxConns == 2
\* Notebooks a workspace can hold.
MaxNotebooks == 3

\* ------------------------------------------------------------------ state
VARIABLES
    coord,          \* AgentVoice.connect: where the coordinator coroutine is
    task,           \* per task: where its coroutine is, or how it ended
    cancelCalled,   \* per task: connect() has called .cancel() on its handle
    cancelReq,      \* per task: a cancellation is pending delivery
    cpu,            \* who runs on the event-loop thread: "loop" or a task
    ready,          \* the event loop's FIFO of callbacks ready to run
    first,          \* the first task that completed ("none": none yet)
    mic,            \* sd.InputStream of listen_and_send_audio
    micAvail,       \* full frames the input device has available
    idlePolled,     \* the last capture-loop iteration found no full frame
    speaker,        \* sd.OutputStream owned by the task's AudioPlayerAsync
    chan,           \* the websocket transport
    inbox,          \* inbound messages not yet read
    kbdQuit,        \* the line the user entered last was 'q'
    triggers,       \* history: the kinds of shutdown trigger that occurred
    updates,        \* history: session.update messages sent on the channel
    unconfigured,   \* history: an input_audio_buffer.append was sent, or an
                    \* inbound event read, before any session.update was sent
    queue,          \* AudioPlayerAsync.queue: a sequence of sample chunks
    playing,        \* AudioPlayerAsync.playing
    active,         \* the output stream is started (callbacks are made)
    cbpc,           \* audio thread: "idle", or "write" (drained, not written)
    cbFrames,       \* callback's `frames` argument
    cbData,         \* callback's local `data` after the locked section
    ctlpc,          \* control thread: "idle", or "stopping" (inside stop())
    lastCtl,        \* the last control operation that returned
    pushed,         \* history: every sample pushed, in push order
    out,            \* history: every sample written to outdata, in order
    preStop,        \* history: samples pushed before the last stop() returned
    stopped,        \* history: stop() has been called
    lock,           \* AudioPlayerAsync.lock: "none", or the thread holding it
    tpc,            \* per thread using the player: the statement it is at
    rpc,            \* receive_audio_and_playback: "running" or "ended"
    received,       \* history: every inbound payload read, in order
    dispatched,     \* history: the positions of the payloads that reached
                    \* the if/elif chain of the loop body
    transcript,     \* the local `transcript`, a sequence of fragments
    emitted,        \* history: every transcript printed, in order
    lastItem,       \* the local `last_audio_item_id`
    spc,            \* per caller of connection.send: "idle", or "in_send"
                    \* (suspended inside self._connection.send)
    sent,           \* per caller: how many messages it has handed to send
    wire,           \* history: the frame parts written to the socket
    capNext,        \* frames the input device has captured so far
    capBuf,         \* the input device's buffer: captured frames not yet read
    lpc,            \* listen_and_send_audio: "poll", "sending" or "ended"
    sendLog,        \* history: per send started, its frame and its state
    cfg,            \* constructor arguments and environment of the client
    client,         \* the AsyncAzureVoiceLive object: how construction
                    \* ended, and its _api_key, _token and _connection
    conn,           \* per AsyncVoiceLiveConnection object: its state
    connectCalls,   \* history: connect() calls made on the client
    lastConnect,    \* history: how the last connect() call ended
    handshakes,     \* history, per connection object: ws_connect calls made
    entered,        \* history, per connection object: how __aenter__ ended
    request,        \* per connection object: the url and the headers it
                    \* was built with, and connect()'s arguments (history)
    jparam,         \* update(): the session and event_id it is called with
    jout,           \* update(): how it ended, the JSON text handed to send,
                    \* and what json.loads makes of that text
    nbin,           \* runner: the notebooks under the root, how executing
                    \* each one ends, and whether the root is under cwd
    npc,            \* runner: main() at "start", "loop", "output", "exited"
    notebooks,      \* runner: the list discover_notebooks returned
    executed,       \* history: notebooks handed to executor.preprocess
    results,        \* runner: self.results
    exitCode        \* runner: the status passed to sys.exit, -1 before

cvars == <<coord, task, cancelCalled, cancelReq, cpu, ready, first, mic,
           micAvail, idlePolled, speaker, chan, inbox, kbdQuit, triggers>>
pvars == <<queue, playing, active, cbpc, cbFrames, cbData, ctlpc, lastCtl,
           pushed, out, preStop, stopped>>
lvars == <<lock, tpc>>
rvars == <<rpc, received, dispatched, transcript, emitted, lastItem>>
svars == <<spc, sent, wire>>
hvars == <<updates, unconfigured>>
qvars == <<capNext, capBuf, lpc, sendLog>>
fvars == <<cfg, client, conn, connectCalls, lastConnect, handshakes,
           entered, request>>
jvars == <<jparam, jout>>
nvars == <<nbin, npc, notebooks, executed, results, exitCode>>
yvars == <<lvars, rvars, svars, qvars, fvars, jvars, nvars>>
xvars == <<yvars, hvars>>
vars == <<cvars, pvars, xvars>>

Tasks == {"send_task", "receive_task", "keyboard_task"}
Finished == {"done", "error", "cancelled"}
\* "ok": an event the dispatch handles and goes on; "done": response.done;
\* "malformed": not JSON; "undecodable": JSON the dispatch raises on.
EventKinds == {"ok", "done", "malformed", "undecodable"}

InReady(x) == \E i \in 1..Len(ready) : ready[i] = x

\* The player as AudioPlayerAsync.__init__ leaves it.
PlayerInit ==
    /\ queue = <<>>
    /\ playing = FALSE
    /\ active = FALSE
    /\ cbpc = "idle"
    /\ cbFrames = 0
    /\ cbData = <<>>
    /\ ctlpc = "idle"
    /\ lastCtl = "init"
    /\ pushed = <<>>
    /\ out = <<>>
    /\ preStop = {}
    /\ stopped = FALSE

\* The threads that use one player: the caller of add_data (the receive
\* loop), a caller of stop, and the audio thread that makes the callbacks.
Threads == {"producer", "stopper", "audio"}

\* threading.Lock() as __init__ creates it: not held; no call in progress.
LockInit ==
    /\ lock = "none"
    /\ tpc = [t \in Threads |-> "idle"]

\* receive_audio_and_playback at its first `async for`: transcript = "",
\* last_audio_item_id = None, nothing read yet.
RecvInit ==
    /\ rpc = "running"
    /\ received = <<>>
    /\ dispatched = <<>>
    /\ transcript = <<>>
    /\ emitted = <<>>
    /\ lastItem = "None"

\* The coroutines that send on one connection: connect() (session.update)
\* and listen_and_send_audio (input_audio_buffer.append).
Callers == {"connect", "listen"}

\* An open connection on which nothing has been sent.
ChannelInit ==
    /\ spc = [c \in Callers |-> "idle"]
    /\ sent = [c \in Callers |-> 0]
    /\ wire = <<>>

\* listen_and_send_audio after stream.start(): nothing captured or sent.
CaptureInit ==
    /\ capNext = 0
    /\ capBuf = <<>>
    /\ lpc = "poll"
    /\ sendLog = <<>>

\* Python's None, and a value that is not a str.
None == "<None>"
NotAStr == "<int>"

\* bool(x) for the values used here
Truthy(x) == x \notin {None, ""}

\* Constructor arguments and environment: the endpoint and the key as
\* argument and as environment variable, the token credential, whether it
\* yields a token when asked and which, and the token of the foundry
\* credential (None without one).
Configs ==
    [azure_endpoint : {None, "https://ep"},
     env_endpoint : {None, "https://ep"},
     api_key : {None, "", "key"},
     env_api_key : {None, "", "key"},
     azure_ad_token_credential : {None, "credential"},
     token_ok : BOOLEAN,
     token : {"tokA", "tokB"},
     foundry_token : {None, "ftok"}]

\* The arguments AgentVoice.connect passes: an endpoint and
\* DefaultAzureCredential(), no key.
AgentVoiceConfig ==
    [azure_endpoint |-> "https://ep", env_endpoint |-> None,
     api_key |-> None, env_api_key |-> None,
     azure_ad_token_credential |-> "credential", token_ok |-> TRUE,
     token |-> "tokA", foundry_token |-> "ftok"]

\* No url: the request of a connection object that does not exist.
NoUrl ==
    [base |-> "", api_version |-> "", model |-> "", agent_id |-> "",
     agent_project_name |-> "", agent_access_token |-> "",
     authorization_bearer |-> ""]

\* No client constructed yet, no connection object.
ClientStart ==
    /\ client = [status |-> "unbuilt", error |-> "none", api_key |-> None,
                 token |-> None, connection |-> 0, azure_endpoint |-> None,
                 foundry_token |-> None]
    /\ conn = [i \in 1..MaxConns |-> "none"]
    /\ connectCalls = 0
    /\ lastConnect = "none"
    /\ handshakes = [i \in 1..MaxConns |-> 0]
    /\ entered = [i \in 1..MaxConns |-> "none"]
    /\ request = [i \in 1..MaxConns |->
                     [url |-> NoUrl, headers |-> {}, model |-> None,
                      agent_id |-> None]]

\* A Python value of a session field: absent from the dict, None, a str,
\* a list or a set (of str).
PyAbsent == [kind |-> "absent", str |-> "", seq |-> <<>>, members |-> {}]
PyNone == [kind |-> "None", str |-> "", seq |-> <<>>, members |-> {}]
PyStr(x) == [kind |-> "str", str |-> x, seq |-> <<>>, members |-> {}]
PyList(x) == [kind |-> "list", str |-> "", seq |-> x, members |-> {}]
PySet(x) == [kind |-> "set", str |-> "", seq |-> <<>>, members |-> x]

\* The values a session.update can be built from: Session's fields
\* `animation` (its `outputs`, a Set) and `output_audio_timestamp_types`
\* (a Set) or neither, the `modalities` list and the `voice` name that
\* connect() passes, and the event_id (None by default).
Params ==
    [outputs : {PyAbsent} \cup
               {PySet(x) : x \in SUBSET {"blendshapes", "viseme_id",
                                         "emotion"}},
     output_audio_timestamp_types : {PyAbsent, PySet({}), PySet({"word"})},
     modalities : {PyAbsent, PyList(<<>>), PyList(<<"audio", "text">>)},
     voice_name : {PyAbsent, PyStr("en-US-Aria:DragonHDLatestNeural")},
     event_id : {PyNone, PyStr("evt_1")}]

\* The session AgentVoice.connect passes (its list and string fields).
AgentVoiceParam ==
    [outputs |-> PyAbsent, output_audio_timestamp_types |-> PyAbsent,
     modalities |-> PyList(<<"audio", "text">>),
     voice_name |-> PyStr("en-US-Aria:DragonHDLatestNeural"),
     event_id |-> PyNone]

JsonFields ==
    {"outputs", "output_audio_timestamp_types", "modalities", "voice_name",
     "event_id"}

\* update() not called yet.
JsonStart ==
    jout = [status |-> "idle", text |-> AgentVoiceParam,
            parsed |-> AgentVoiceParam]

\* How executing one notebook ends: executor.preprocess returns, raises
\* CellExecutionError, or the read or the executor raises another Exception.
Outcomes == {"ok", "CellExecutionError", "Exception"}

\* A run of the script: the notebooks root.rglob finds after the two
\* exclusions (numbered in path order), the outcome of each, and whether
\* --root-path lies under the current directory.
RunInputs ==
    [found : SUBSET (1..MaxNotebooks),
     outcome : [1..MaxNotebooks -> Outcomes],
     under_cwd : BOOLEAN]

\* The default --root-path "." in a workspace without notebooks.
DefaultRun ==
    [found |-> {}, outcome |-> [i \in 1..MaxNotebooks |-> "ok"],
     under_cwd |-> TRUE]

\* NotebookTestRunner.__init__: self.results = []; main() not yet run.
RunnerStart ==
    /\ npc = "start"
    /\ notebooks = <<>>
    /\ executed = <<>>
    /\ results = <<>>
    /\ exitCode = -1

\* Before AgentVoice.connect is called.
CoordInit ==
    /\ coord = "Idle"
    /\ task = [t \in Tasks |-> "none"]
    /\ cancelCalled = [t \in Tasks |-> FALSE]
    /\ cancelReq = [t \in Tasks |-> FALSE]
    /\ cpu = "loop"
    /\ ready = <<>>
    /\ first = "none"
    /\ mic = "none"
    /\ micAvail = 0
    /\ idlePolled = FALSE
    /\ speaker = "none"
    /\ chan = "none"
    /\ inbox = <<>>
    /\ kbdQuit = FALSE
    /\ triggers = {}
    /\ updates = 0
    /\ unconfigured = FALSE

BaseInit ==
    /\ CoordInit /\ PlayerInit /\ LockInit /\ RecvInit /\ ChannelInit
    /\ CaptureInit /\ ClientStart /\ JsonStart /\ RunnerStart

Init ==
    /\ BaseInit
    /\ cfg = AgentVoiceConfig /\ jparam = AgentVoiceParam /\ nbin = DefaultRun

\* ------------------------------------------------- event loop bookkeeping
\* A task's coroutine ends with status st; `rest` is the ready queue without
\* it.  asyncio.wait(return_when=FIRST_COMPLETED) has a done-callback on each
\* task: the first completion schedules it ("cb"), later ones find the waiter
\* already set.
Finish(t, st, rest) ==
    /\ task' = [task EXCEPT ![t] = st]
    /\ first' = IF first = "none" THEN t ELSE first
    /\ ready' = IF coord = "Streaming" /\ first = "none"
                THEN Append(rest, "cb") ELSE rest

\* Task.cancel() throws CancelledError into the coroutine at the await it is
\* suspended on; CancelledError is a BaseException, so neither activity's
\* `except Exception` swallows it.
CancelDeliveredIgnored(t) == FALSE
CancelDelivered(t) == cancelReq[t]

\* The handles connect() calls .cancel() on once asyncio.wait returns.
CancelTargets == {"send_task", "receive_task"}

\* Task.cancel() on each task of S: a no-op on a finished task; otherwise the
\* request is recorded and the task's wake-up is scheduled.
CancelAll(S, rest) ==
    LET live == {t \in S : task[t] \notin Finished}
        wake(q, t) == IF t \in live /\ ~(\E i \in 1..Len(q) : q[i] = t)
                      THEN Append(q, t) ELSE q
    IN  /\ cancelReq' = [t \in Tasks |-> cancelReq[t] \/ t \in live]
        /\ ready' = wake(wake(wake(rest, "send_task"), "receive_task"),
                         "keyboard_task")

\* ------------------------------------------------------ AgentVoice.connect
\* client.connect(...) and AsyncVoiceLiveConnection.__aenter__: the handshake
\* succeeds, or raises and connect() ends without entering the with-body.
Open ==
    /\ coord = "Idle"
    /\ \/ coord' = "Connected" /\ chan' = "open"
       \/ coord' = "Failed" /\ chan' = chan
    /\ UNCHANGED <<task, cancelCalled, cancelReq, cpu, ready, first, mic,
                   micAvail, idlePolled, speaker, inbox, kbdQuit, triggers>>
    /\ UNCHANGED <<pvars, xvars>>

\* AsyncVoiceLiveSessionResource.update: one send of one session.update.
SentUpdatesNone(n) == n
SentUpdates(n) == n + 1

\* connection.session.update(...): sent on the open channel; on a channel the
\* remote side has closed the send raises, __aexit__ closes, connect() raises.
SessionUpdate ==
    /\ coord = "Connected"
    /\ \/ /\ chan = "open" /\ coord' = "Configured" /\ chan' = chan
          /\ updates' = SentUpdates(updates)
       \/ /\ chan # "open" /\ coord' = "Failed" /\ chan' = "closed"
          /\ updates' = updates
    /\ UNCHANGED <<task, cancelCalled, cancelReq, cpu, ready, first, mic,
                   micAvail, idlePolled, speaker, inbox, kbdQuit, triggers>>
    /\ UNCHANGED <<pvars, yvars, unconfigured>>

\* The three create_task calls, then `await asyncio.wait(...)` suspends the
\* coordinator: the tasks are scheduled in creation order.
CreateTasks ==
    /\ coord = "Configured"
    /\ coord' = "Streaming"
    /\ task' = [t \in Tasks |-> "new"]
    /\ ready' = <<"send_task", "receive_task", "keyboard_task">>
    /\ UNCHANGED <<cancelCalled, cancelReq, cpu, first, mic, micAvail,
                   idlePolled, speaker, chan, inbox, kbdQuit, triggers>>
    /\ UNCHANGED <<pvars, xvars>>

\* The done-callback of asyncio.wait runs: it sets the waiter, which schedules
\* the coordinator.
WaitCallback ==
    /\ cpu = "loop" /\ ready # <<>> /\ Head(ready) = "cb"
    /\ ready' = Append(Tail(ready), "coord")
    /\ UNCHANGED <<coord, task, cancelCalled, cancelReq, cpu, first, mic,
                   micAvail, idlePolled, speaker, chan, inbox, kbdQuit, triggers>>
    /\ UNCHANGED <<pvars, xvars>>

\* asyncio.wait returns: send_task.cancel(); receive_task.cancel(); then the
\* with-block exits into __aexit__, which awaits the websocket's close().
\* close() on an open connection suspends for the closing handshake; on a
\* connection the remote side already ended it may return without suspending.
Drain ==
    /\ cpu = "loop" /\ ready # <<>> /\ Head(ready) = "coord"
    /\ coord = "Streaming"
    /\ cancelCalled' = [t \in Tasks |-> cancelCalled[t] \/ t \in CancelTargets]
    /\ CancelAll(CancelTargets, Tail(ready))
    /\ \/ chan = "open" /\ chan' = "closing" /\ coord' = "Closing"
       \/ chan # "open" /\ chan' = chan /\ coord' = "Closing"
       \/ chan # "open" /\ chan' = "closed" /\ coord' = "Closed"
    /\ UNCHANGED <<task, cpu, first, mic, micAvail, idlePolled, speaker,
                   inbox, kbdQuit, triggers>>
    /\ UNCHANGED <<pvars, xvars>>

\* The transport finishes closing and wakes the coordinator.
CloseDone ==
    /\ coord = "Closing" /\ ~InReady("coord")
    /\ chan' = "closed"
    /\ ready' = Append(ready, "coord")
    /\ UNCHANGED <<coord, task, cancelCalled, cancelReq, cpu, first, mic,
                   micAvail, idlePolled, speaker, inbox, kbdQuit, triggers>>
    /\ UNCHANGED <<pvars, xvars>>

\* __aexit__ resumes, drops the connection; connect() prints and returns.
CloseResume ==
    /\ cpu = "loop" /\ ready # <<>> /\ Head(ready) = "coord"
    /\ coord = "Closing"
    /\ coord' = "Closed"
    /\ ready' = Tail(ready)
    /\ UNCHANGED <<task, cancelCalled, cancelReq, cpu, first, mic, micAvail,
                   idlePolled, speaker, chan, inbox, kbdQuit, triggers>>
    /\ UNCHANGED <<pvars, xvars>>

\* asyncio.run(av.connect()) after connect() returned: it cancels every task
\* still pending and runs the loop until they have ended.
RunnerCleanup ==
    /\ cpu = "loop"
    /\ coord = "Closed"
    /\ coord' = "Exited"
    /\ CancelAll(Tasks, ready)
    /\ UNCHANGED <<task, cancelCalled, cpu, first, mic, micAvail, idlePolled,
                   speaker, chan, inbox, kbdQuit, triggers>>
    /\ UNCHANGED <<pvars, xvars>>

\* ---------------------------------------------------- listen_and_send_audio
\* First run of the task: sd.InputStream(...) is built outside the try, so its
\* failure escapes the coroutine; a failure of stream.start() lands in
\* `except Exception` and the finally stops and closes the stream.  Otherwise
\* the coroutine enters its `while True` and keeps the thread.
ListenStart ==
    /\ cpu = "loop" /\ ready # <<>> /\ Head(ready) = "send_task"
    /\ task["send_task"] = "new"
    /\ \/ \* sd.InputStream(...) raises
          /\ mic' = mic
          /\ Finish("send_task", "error", Tail(ready))
          /\ cpu' = cpu
          /\ triggers' = triggers \cup {"device"}
       \/ \* stream.start() raises
          /\ mic' = "closed"
          /\ Finish("send_task", "done", Tail(ready))
          /\ cpu' = cpu
          /\ triggers' = triggers \cup {"device"}
       \/ /\ mic' = "started"
          /\ triggers' = triggers
          /\ task' = [task EXCEPT !["send_task"] = "poll"]
          /\ ready' = Tail(ready)
          /\ cpu' = "send_task"
          /\ first' = first
    /\ UNCHANGED <<coord, cancelCalled, cancelReq, micAvail, idlePolled,
                   speaker, chan, inbox, kbdQuit>>
    /\ UNCHANGED <<pvars, xvars>>

\* One iteration of the capture loop, the coroutine holding the thread.
ListenPoll ==
    /\ cpu = "send_task" /\ task["send_task"] = "poll"
    /\ \/ \* stream.read_available < read_size: `continue` goes straight
          \* back to the test; the coroutine awaits nothing
          /\ micAvail = 0
          /\ idlePolled' = TRUE
          /\ UNCHANGED <<task, ready, first, mic, micAvail, cpu, triggers>>
          /\ unconfigured' = unconfigured
       \/ \* stream.read raises: except Exception, finally
          /\ micAvail > 0
          /\ micAvail' = micAvail - 1
          /\ idlePolled' = FALSE
          /\ mic' = "closed"
          /\ Finish("send_task", "done", ready)
          /\ cpu' = "loop"
          /\ triggers' = triggers \cup {"device"}
          /\ unconfigured' = unconfigured
       \/ \* the frame is sent and connection.send returns without suspending
          /\ micAvail > 0 /\ chan = "open"
          /\ micAvail' = micAvail - 1
          /\ idlePolled' = FALSE
          /\ UNCHANGED <<task, ready, first, mic, cpu, triggers>>
          /\ unconfigured' = (unconfigured \/ updates = 0)
       \/ \* the frame is handed over and connection.send suspends
          /\ micAvail > 0 /\ chan = "open"
          /\ micAvail' = micAvail - 1
          /\ idlePolled' = FALSE
          /\ task' = [task EXCEPT !["send_task"] = "sending"]
          /\ cpu' = "loop"
          /\ UNCHANGED <<ready, first, mic, triggers>>
          /\ unconfigured' = (unconfigured \/ updates = 0)
       \/ \* the channel is closed: send raises, the loop breaks, finally
          /\ micAvail > 0 /\ chan # "open"
          /\ micAvail' = micAvail - 1
          /\ idlePolled' = FALSE
          /\ mic' = "closed"
          /\ Finish("send_task", "done", ready)
          /\ cpu' = "loop"
          /\ triggers' = triggers
          /\ unconfigured' = unconfigured
    /\ UNCHANGED <<coord, cancelCalled, cancelReq, speaker, chan, inbox,
                   kbdQuit>>
    /\ UNCHANGED <<pvars, yvars, updates>>

\* The transport completes (or fails) the pending send and wakes the task.
SendWake ==
    /\ task["send_task"] = "sending" /\ ~InReady("send_task")
    /\ ready' = Append(ready, "send_task")
    /\ UNCHANGED <<coord, task, cancelCalled, cancelReq, cpu, first, mic,
                   micAvail, idlePolled, speaker, chan, inbox, kbdQuit, triggers>>
    /\ UNCHANGED <<pvars, xvars>>

\* The task resumes at `await connection.send(...)`.
ListenResume ==
    /\ cpu = "loop" /\ ready # <<>> /\ Head(ready) = "send_task"
    /\ task["send_task"] = "sending"
    /\ \/ \* CancelledError: finally
          /\ CancelDelivered("send_task")
          /\ mic' = "closed"
          /\ Finish("send_task", "cancelled", Tail(ready))
          /\ cpu' = cpu
       \/ \* the send went out: next iteration
          /\ ~CancelDelivered("send_task")
          /\ task' = [task EXCEPT !["send_task"] = "poll"]
          /\ ready' = Tail(ready)
          /\ cpu' = "send_task"
          /\ UNCHANGED <<first, mic>>
       \/ \* the connection was lost under the send: break, finally
          /\ ~CancelDelivered("send_task")
          /\ chan # "open"
          /\ mic' = "closed"
          /\ Finish("send_task", "done", Tail(ready))
          /\ cpu' = cpu
    /\ UNCHANGED <<coord, cancelCalled, cancelReq, micAvail, idlePolled,
                   speaker, chan, inbox, kbdQuit, triggers>>
    /\ UNCHANGED <<pvars, xvars>>

\* The audio subsystem's own thread buffers another full frame.
MicDeliver ==
    /\ mic = "started" /\ micAvail < MaxAvail
    /\ micAvail' = micAvail + 1
    /\ UNCHANGED <<coord, task, cancelCalled, cancelReq, cpu, ready, first,
                   mic, idlePolled, speaker, chan, inbox, kbdQuit, triggers>>
    /\ UNCHANGED <<pvars, xvars>>

\* ----------------------------------------------- receive_audio_and_playback
\* First run: AudioPlayerAsync() is built outside the try; then the coroutine
\* suspends in `async for raw_event in connection`.
ReceiveStart ==
    /\ cpu = "loop" /\ ready # <<>> /\ Head(ready) = "receive_task"
    /\ task["receive_task"] = "new"
    /\ \/ \* sd.OutputStream(...) raises
          /\ speaker' = speaker
          /\ Finish("receive_task", "error", Tail(ready))
          /\ triggers' = triggers \cup {"speaker"}
       \/ /\ speaker' = "open"
          /\ triggers' = triggers
          /\ task' = [task EXCEPT !["receive_task"] = "waiting"]
          /\ ready' = Tail(ready)
          /\ first' = first
    /\ UNCHANGED <<coord, cancelCalled, cancelReq, cpu, mic, micAvail,
                   idlePolled, chan, inbox, kbdQuit>>
    /\ UNCHANGED <<pvars, xvars>>

\* A message has arrived, or the connection has ended: the read is woken.
ReceiveWake ==
    /\ task["receive_task"] = "waiting" /\ ~InReady("receive_task")
    /\ inbox # <<>> \/ chan \in {"remoteOK", "remoteErr"}
    /\ ready' = Append(ready, "receive_task")
    /\ UNCHANGED <<coord, task, cancelCalled, cancelReq, cpu, first, mic,
                   micAvail, idlePolled, speaker, chan, inbox, kbdQuit, triggers>>
    /\ UNCHANGED <<pvars, xvars>>

\* The task resumes inside `async for`.
ReceiveResume ==
    /\ cpu = "loop" /\ ready # <<>> /\ Head(ready) = "receive_task"
    /\ task["receive_task"] = "waiting"
    /\ \/ \* CancelledError: finally, audio_player.terminate()
          /\ CancelDelivered("receive_task")
          /\ speaker' = "closed"
          /\ Finish("receive_task", "cancelled", Tail(ready))
          /\ UNCHANGED <<inbox, cpu, triggers>>
          /\ unconfigured' = unconfigured
       \/ \* an event is dispatched; response.done and a JSONDecodeError
          \* break to the `while True`, which iterates the connection again
          /\ ~CancelDelivered("receive_task")
          /\ inbox # <<>> /\ Head(inbox) # "undecodable"
          /\ inbox' = Tail(inbox)
          /\ ready' = Tail(ready)
          /\ UNCHANGED <<task, first, speaker, cpu, triggers>>
          /\ unconfigured' = (unconfigured \/ updates = 0)
       \/ \* the dispatch raises: except Exception, finally
          /\ ~CancelDelivered("receive_task")
          /\ inbox # <<>> /\ Head(inbox) = "undecodable"
          /\ inbox' = Tail(inbox)
          /\ speaker' = "closed"
          /\ Finish("receive_task", "done", Tail(ready))
          /\ cpu' = cpu
          /\ triggers' = triggers \cup {"decode"}
          /\ unconfigured' = (unconfigured \/ updates = 0)
       \/ \* abrupt close: ConnectionClosedError, a WebSocketException
          /\ ~CancelDelivered("receive_task")
          /\ inbox = <<>> /\ chan = "remoteErr"
          /\ speaker' = "closed"
          /\ Finish("receive_task", "done", Tail(ready))
          /\ UNCHANGED <<inbox, cpu, triggers>>
          /\ unconfigured' = unconfigured
       \/ \* graceful close: the iterator just ends, the inner loop is left
          \* normally and the enclosing `while True` starts another
          \* `async for` over the same, ended connection
          /\ ~CancelDelivered("receive_task")
          /\ inbox = <<>> /\ chan = "remoteOK"
          /\ task' = [task EXCEPT !["receive_task"] = "spin"]
          /\ ready' = Tail(ready)
          /\ cpu' = "receive_task"
          /\ UNCHANGED <<first, speaker, inbox, triggers>>
          /\ unconfigured' = unconfigured
    /\ UNCHANGED <<coord, cancelCalled, cancelReq, mic, micAvail, idlePolled,
                   chan, kbdQuit>>
    /\ UNCHANGED <<pvars, yvars, updates>>

\* Iterating the ended connection again ends at once; whether the library
\* gives the event loop a turn while doing so is its choice.
ReceiveSpinYield ==
    /\ cpu = "receive_task" /\ task["receive_task"] = "spin"
    /\ cpu' = "loop"
    /\ ready' = Append(ready, "receive_task")
    /\ UNCHANGED <<coord, task, cancelCalled, cancelReq, first, mic, micAvail,
                   idlePolled, speaker, chan, inbox, kbdQuit, triggers>>
    /\ UNCHANGED <<pvars, xvars>>

ReceiveSpinResume ==
    /\ cpu = "loop" /\ ready # <<>> /\ Head(ready) = "receive_task"
    /\ task["receive_task"] = "spin"
    /\ \/ /\ CancelDelivered("receive_task")
          /\ speaker' = "closed"
          /\ Finish("receive_task", "cancelled", Tail(ready))
          /\ cpu' = cpu
       \/ /\ ~CancelDelivered("receive_task")
          /\ ready' = Tail(ready)
          /\ cpu' = "receive_task"
          /\ UNCHANGED <<task, first, speaker>>
    /\ UNCHANGED <<coord, cancelCalled, cancelReq, mic, micAvail, idlePolled,
                   chan, inbox, kbdQuit, triggers>>
    /\ UNCHANGED <<pvars, xvars>>

\* --------------------------------------------------- read_keyboard_and_quit
KeyboardStart ==
    /\ cpu = "loop" /\ ready # <<>> /\ Head(ready) = "keyboard_task"
    /\ task["keyboard_task"] = "new"
    /\ task' = [task EXCEPT !["keyboard_task"] = "waiting"]
    /\ ready' = Tail(ready)
    /\ UNCHANGED <<coord, cancelCalled, cancelReq, cpu, first, mic, micAvail,
                   idlePolled, speaker, chan, inbox, kbdQuit, triggers>>
    /\ UNCHANGED <<pvars, xvars>>

\* The user enters a line; input() returns in its worker thread.
UserInput ==
    /\ task["keyboard_task"] = "waiting" /\ ~InReady("keyboard_task")
    /\ \E q \in BOOLEAN :
          /\ kbdQuit' = q
          /\ triggers' = IF q THEN triggers \cup {"quit"} ELSE triggers
    /\ ready' = Append(ready, "keyboard_task")
    /\ UNCHANGED <<coord, task, cancelCalled, cancelReq, cpu, first, mic,
                   micAvail, idlePolled, speaker, chan, inbox>>
    /\ UNCHANGED <<pvars, xvars>>

KeyboardResume ==
    /\ cpu = "loop" /\ ready # <<>> /\ Head(ready) = "keyboard_task"
    /\ task["keyboard_task"] = "waiting"
    /\ \/ /\ CancelDelivered("keyboard_task")
          /\ Finish("keyboard_task", "cancelled", Tail(ready))
       \/ /\ ~CancelDelivered("keyboard_task") /\ kbdQuit
          /\ Finish("keyboard_task", "done", Tail(ready))
       \/ /\ ~CancelDelivered("keyboard_task") /\ ~kbdQuit
          /\ ready' = Tail(ready)
          /\ UNCHANGED <<task, first>>
    /\ UNCHANGED <<coord, cancelCalled, cancelReq, cpu, mic, micAvail,
                   idlePolled, speaker, chan, inbox, kbdQuit, triggers>>
    /\ UNCHANGED <<pvars, xvars>>

\* ------------------------------------------------------------ the remote side
RemoteEvent ==
    /\ chan = "open" /\ Len(inbox) < MaxInbox
    /\ \E k \in EventKinds : inbox' = Append(inbox, k)
    /\ UNCHANGED <<coord, task, cancelCalled, cancelReq, cpu, ready, first,
                   mic, micAvail, idlePolled, speaker, chan, kbdQuit, triggers>>
    /\ UNCHANGED <<pvars, xvars>>

RemoteClose ==
    /\ chan = "open"
    /\ \E c \in {"remoteOK", "remoteErr"} : chan' = c
    /\ triggers' = triggers \cup {"remote"}
    /\ UNCHANGED <<coord, task, cancelCalled, cancelReq, cpu, ready, first,
                   mic, micAvail, idlePolled, speaker, inbox, kbdQuit>>
    /\ UNCHANGED <<pvars, xvars>>

\* --------------------------------------------------------- specifications
\* The event loop runs the callback at the head of its ready queue.
LoopStep ==
    \/ WaitCallback \/ Drain \/ CloseResume
    \/ ListenStart \/ ListenResume
    \/ ReceiveStart \/ ReceiveResume \/ ReceiveSpinResume
    \/ KeyboardStart \/ KeyboardResume

Next ==
    \/ Open \/ SessionUpdate \/ CreateTasks
    \/ WaitCallback \/ Drain \/ CloseDone \/ CloseResume \/ RunnerCleanup
    \/ ListenStart \/ ListenPoll \/ SendWake \/ ListenResume \/ MicDeliver
    \/ ReceiveStart \/ ReceiveWake \/ ReceiveResume
    \/ ReceiveSpinYield \/ ReceiveSpinResume
    \/ KeyboardStart \/ UserInput \/ KeyboardResume
    \/ RemoteEvent \/ RemoteClose

Spec == Init /\ [][Next]_vars

\* The loop keeps running ready callbacks, the transport finishes a close it
\* was asked for, and asyncio.run cleans up once connect() has returned.
FairSpec ==
    /\ Spec
    /\ WF_vars(LoopStep)
    /\ WF_vars(CloseDone)
    /\ WF_vars(RunnerCleanup)

\* --------------------------------------------------------- AudioPlayerAsync
\* Samples are numbered in push order (1, 2, ...), so that a reordered,
\* repeated or lost sample shows; 0 is the silence the callback pads with.
Min(a, b) == IF a < b THEN a ELSE b

RECURSIVE Flat(_)
Flat(q) == IF q = <<>> THEN <<>> ELSE Head(q) \o Flat(Tail(q))

Zeros(n) == [i \in 1..n |-> 0]

\* item[:frames_needed]
Taken(item, needed) == SubSeq(item, 1, Min(needed, Len(item)))

\* item[frames_needed:]
RemainderWhole(item, needed) == item
Remainder(item, needed) == SubSeq(item, needed + 1, Len(item))

\* self.queue.insert(0, item[frames_needed:])
ReinsertAtTail(rem, rest) == Append(rest, rem)
Reinsert(rem, rest) == <<rem>> \o rest

\* The while loop of callback: pop the head chunk, take what is needed of it,
\* put what is left of it back at the head.
RECURSIVE DrainLoop(_, _, _)
DrainLoop(q, data, frames) ==
    IF Len(data) < frames /\ Len(q) > 0
    THEN LET item == Head(q)
             needed == frames - Len(data)
             q2 == IF Len(item) > needed
                   THEN Reinsert(Remainder(item, needed), Tail(q))
                   ELSE Tail(q)
         IN  DrainLoop(q2, data \o Taken(item, needed), frames)
    ELSE [data |-> data, queue |-> q]

\* if len(data) < frames: data = concatenate((data, zeros(frames - len(data))))
PadFront(data, frames) == Zeros(frames - Len(data)) \o data
Pad(data, frames) ==
    IF Len(data) < frames THEN data \o Zeros(frames - Len(data)) ELSE data

\* stop(): `self.queue = []` under the lock
StopQueueKept == queue
StopQueue == <<>>

\* add_data(data), all of it under the lock: the chunk is appended and the
\* output stream is started if the player is not playing.
AddData ==
    /\ ctlpc = "idle"
    /\ Len(queue) < MaxQueue
    /\ \E n \in 0..MaxChunk :
          /\ Len(pushed) + n <= MaxSamples
          /\ LET chunk == [i \in 1..n |-> Len(pushed) + i]
             IN  /\ queue' = Append(queue, chunk)
                 /\ pushed' = pushed \o chunk
    /\ playing' = TRUE
    /\ active' = IF playing THEN active ELSE TRUE
    /\ lastCtl' = "add_data"
    /\ UNCHANGED <<cbpc, cbFrames, cbData, ctlpc, out, preStop, stopped>>
    /\ UNCHANGED <<cvars, xvars>>

\* stop(), its locked section: the queue is emptied.
StopClear ==
    /\ ctlpc = "idle"
    /\ queue' = StopQueue
    /\ ctlpc' = "stopping"
    /\ stopped' = TRUE
    /\ UNCHANGED <<playing, active, cbpc, cbFrames, cbData, lastCtl, pushed,
                   out, preStop>>
    /\ UNCHANGED <<cvars, xvars>>

\* stop(), after the lock: playing = False; stream.stop(), which returns once
\* no callback is running any more.
StopHalt ==
    /\ ctlpc = "stopping"
    /\ cbpc = "idle"
    /\ playing' = FALSE
    /\ active' = FALSE
    /\ ctlpc' = "idle"
    /\ lastCtl' = "stop"
    /\ preStop' = {pushed[i] : i \in 1..Len(pushed)}
    /\ UNCHANGED <<queue, cbpc, cbFrames, cbData, pushed, out, stopped>>
    /\ UNCHANGED <<cvars, xvars>>

\* callback(outdata, frames, ...), its locked section, made by the audio
\* thread while the stream is started.
CallbackDrain ==
    /\ active
    /\ cbpc = "idle"
    /\ \E f \in 1..MaxFrames :
          /\ Len(out) + f <= MaxOut
          /\ cbFrames' = f
          /\ LET r == DrainLoop(queue, <<>>, f)
             IN  /\ cbData' = Pad(r.data, f)
                 /\ queue' = r.queue
    /\ cbpc' = "write"
    /\ UNCHANGED <<playing, active, ctlpc, lastCtl, pushed, out, preStop,
                   stopped>>
    /\ UNCHANGED <<cvars, xvars>>

\* outdata[:] = data.reshape(-1, 1), after the lock is released.
CallbackWrite ==
    /\ cbpc = "write"
    /\ out' = out \o cbData
    /\ cbpc' = "idle"
    /\ cbData' = <<>>
    /\ UNCHANGED <<queue, playing, active, cbFrames, ctlpc, lastCtl, pushed,
                   preStop, stopped>>
    /\ UNCHANGED <<cvars, xvars>>

NextPlayer ==
    \/ AddData \/ StopClear \/ StopHalt \/ CallbackDrain \/ CallbackWrite

SpecPlayer == Init /\ [][NextPlayer]_vars

\* ------------------------------------------- AudioPlayerAsync and its lock
\* `with self.lock:` entered by thread t: blocks until the lock is free.
Acquire(t) == lock = "none" /\ lock' = t

\* leaving the `with self.lock:` block
Release(t) == lock' = IF lock = t THEN "none" ELSE lock

\* stop() enters `with self.lock:` before it touches the queue.
StopEnterUnlocked == lock' = lock
StopEnter == Acquire("stopper")

\* add_data: `with self.lock:`
LkAddAcquire ==
    /\ tpc["producer"] = "idle"
    /\ Acquire("producer")
    /\ tpc' = [tpc EXCEPT !["producer"] = "append"]
    /\ UNCHANGED <<pvars, cvars, rvars, svars, qvars, fvars, jvars,
                   nvars, hvars>>

\* add_data: self.queue.append(np.frombuffer(data, dtype=np.int16))
LkAddAppend ==
    /\ tpc["producer"] = "append"
    /\ Len(queue) < MaxQueue
    /\ \E n \in 0..MaxChunk : queue' = Append(queue, [i \in 1..n |-> 1])
    /\ tpc' = [tpc EXCEPT !["producer"] =
                  IF playing THEN "release" ELSE "set_playing"]
    /\ UNCHANGED <<playing, active, cbpc, cbFrames, cbData, ctlpc, lastCtl,
                   pushed, out, preStop, stopped>>
    /\ UNCHANGED <<lock, cvars, rvars, svars, qvars, fvars, jvars,
                   nvars, hvars>>

\* add_data -> start(): self.playing = True
LkAddSetPlaying ==
    /\ tpc["producer"] = "set_playing"
    /\ playing' = TRUE
    /\ tpc' = [tpc EXCEPT !["producer"] = "stream_start"]
    /\ UNCHANGED <<queue, active, cbpc, cbFrames, cbData, ctlpc, lastCtl,
                   pushed, out, preStop, stopped>>
    /\ UNCHANGED <<lock, cvars, rvars, svars, qvars, fvars, jvars,
                   nvars, hvars>>

\* add_data -> start(): self.stream.start()
LkAddStreamStart ==
    /\ tpc["producer"] = "stream_start"
    /\ active' = TRUE
    /\ tpc' = [tpc EXCEPT !["producer"] = "release"]
    /\ UNCHANGED <<queue, playing, cbpc, cbFrames, cbData, ctlpc, lastCtl,
                   pushed, out, preStop, stopped>>
    /\ UNCHANGED <<lock, cvars, rvars, svars, qvars, fvars, jvars,
                   nvars, hvars>>

\* add_data: the end of its `with` block; the call returns.
LkAddRelease ==
    /\ tpc["producer"] = "release"
    /\ Release("producer")
    /\ tpc' = [tpc EXCEPT !["producer"] = "idle"]
    /\ UNCHANGED <<pvars, cvars, rvars, svars, qvars, fvars, jvars,
                   nvars, hvars>>

\* stop: `with self.lock:`
LkStopAcquire ==
    /\ tpc["stopper"] = "idle"
    /\ StopEnter
    /\ tpc' = [tpc EXCEPT !["stopper"] = "clear"]
    /\ UNCHANGED <<pvars, cvars, rvars, svars, qvars, fvars, jvars,
                   nvars, hvars>>

\* stop: self.queue = []
LkStopClear ==
    /\ tpc["stopper"] = "clear"
    /\ queue' = <<>>
    /\ tpc' = [tpc EXCEPT !["stopper"] = "release"]
    /\ UNCHANGED <<playing, active, cbpc, cbFrames, cbData, ctlpc, lastCtl,
                   pushed, out, preStop, stopped>>
    /\ UNCHANGED <<lock, cvars, rvars, svars, qvars, fvars, jvars,
                   nvars, hvars>>

\* stop: the end of its `with` block
LkStopRelease ==
    /\ tpc["stopper"] = "release"
    /\ Release("stopper")
    /\ tpc' = [tpc EXCEPT !["stopper"] = "set_playing"]
    /\ UNCHANGED <<pvars, cvars, rvars, svars, qvars, fvars, jvars,
                   nvars, hvars>>

\* stop: self.playing = False
LkStopSetPlaying ==
    /\ tpc["stopper"] = "set_playing"
    /\ playing' = FALSE
    /\ tpc' = [tpc EXCEPT !["stopper"] = "stream_stop"]
    /\ UNCHANGED <<queue, active, cbpc, cbFrames, cbData, ctlpc, lastCtl,
                   pushed, out, preStop, stopped>>
    /\ UNCHANGED <<lock, cvars, rvars, svars, qvars, fvars, jvars,
                   nvars, hvars>>

\* stop: self.stream.stop(), which returns once no callback is running.
LkStopStream ==
    /\ tpc["stopper"] = "stream_stop"
    /\ tpc["audio"] = "idle"
    /\ active' = FALSE
    /\ tpc' = [tpc EXCEPT !["stopper"] = "idle"]
    /\ UNCHANGED <<queue, playing, cbpc, cbFrames, cbData, ctlpc, lastCtl,
                   pushed, out, preStop, stopped>>
    /\ UNCHANGED <<lock, cvars, rvars, svars, qvars, fvars, jvars,
                   nvars, hvars>>

\* callback: made by the audio thread while the stream is started; its
\* `with self.lock:`
LkCbAcquire ==
    /\ active
    /\ tpc["audio"] = "idle"
    /\ Acquire("audio")
    /\ tpc' = [tpc EXCEPT !["audio"] = "drain"]
    /\ UNCHANGED <<pvars, cvars, rvars, svars, qvars, fvars, jvars,
                   nvars, hvars>>

\* callback: the while loop (pop(0), insert(0, ...)) and the padding
LkCbDrain ==
    /\ tpc["audio"] = "drain"
    /\ \E f \in 1..MaxFrames : queue' = DrainLoop(queue, <<>>, f).queue
    /\ tpc' = [tpc EXCEPT !["audio"] = "release"]
    /\ UNCHANGED <<playing, active, cbpc, cbFrames, cbData, ctlpc, lastCtl,
                   pushed, out, preStop, stopped>>
    /\ UNCHANGED <<lock, cvars, rvars, svars, qvars, fvars, jvars,
                   nvars, hvars>>

\* callback: the end of its `with` block
LkCbRelease ==
    /\ tpc["audio"] = "release"
    /\ Release("audio")
    /\ tpc' = [tpc EXCEPT !["audio"] = "write"]
    /\ UNCHANGED <<pvars, cvars, rvars, svars, qvars, fvars, jvars,
                   nvars, hvars>>

\* callback: outdata[:] = data.reshape(-1, 1); the callback returns.
LkCbWrite ==
    /\ tpc["audio"] = "write"
    /\ tpc' = [tpc EXCEPT !["audio"] = "idle"]
    /\ UNCHANGED <<pvars, cvars, rvars, svars, qvars, fvars, jvars,
                   nvars, hvars>>
    /\ UNCHANGED lock

NextLock ==
    \/ LkAddAcquire \/ LkAddAppend \/ LkAddSetPlaying \/ LkAddStreamStart
    \/ LkAddRelease
    \/ LkStopAcquire \/ LkStopClear \/ LkStopRelease \/ LkStopSetPlaying
    \/ LkStopStream
    \/ LkCbAcquire \/ LkCbDrain \/ LkCbRelease \/ LkCbWrite

SpecLock == Init /\ [][NextLock]_vars

\* ------------------------------------------- receive loop: payload content
\* An inbound payload: `json` says whether json.loads accepts the text,
\* `object` whether the parsed value is a JSON object; `type`, `item_id`
\* and `delta` are the object's keys.  A delta is absent, or a string:
\* base64 text (valid or not) that encodes the bytes `data`, or, for a
\* transcript fragment, the characters `data`.
NoDelta == [present |-> FALSE, valid |-> TRUE, data |-> <<>>]
Str(d) == [present |-> TRUE, valid |-> TRUE, data |-> d]
BadB64 == [present |-> TRUE, valid |-> FALSE, data |-> <<>>]

AudioDelta == "response.audio.delta"
TranscriptDelta == "response.audio_transcript.delta"
ResponseDone == "response.done"
OtherType == "session.updated"

Payload(j, o, ty, it, d) ==
    [json |-> j, object |-> o, type |-> ty, item_id |-> it, delta |-> d]

\* The payloads the n-th read can return.  The n-th payload carries the
\* sample n (little-endian int16: the bytes n, 0) or the fragment n, so
\* that a lost, repeated or reordered one shows.
PayloadsAt(n) ==
    {Payload(FALSE, FALSE, "", "None", NoDelta),
     Payload(TRUE, FALSE, "", "None", NoDelta)}
    \cup {Payload(TRUE, TRUE, AudioDelta, it, Str(<<n, 0>>)) :
             it \in {"item_A", "item_B"}}
    \cup {Payload(TRUE, TRUE, AudioDelta, "item_A", d) :
             d \in {NoDelta, BadB64, Str(<<n>>)}}
    \cup {Payload(TRUE, TRUE, TranscriptDelta, "None", d) :
             d \in {NoDelta, Str(<<n>>)}}
    \cup {Payload(TRUE, TRUE, ty, "None", NoDelta) :
             ty \in {ResponseDone, OtherType}}

\* event.get("delta", "")
GetDelta(ev) == IF ev.delta.present THEN ev.delta ELSE Str(<<>>)

\* np.frombuffer(data, dtype=np.int16): raises unless the byte count is
\* a whole number of samples
RECURSIVE Int16s(_)
Int16s(bs) ==
    IF Len(bs) < 2 THEN <<>>
    ELSE <<bs[1] + 256 * bs[2]>> \o Int16s(SubSeq(bs, 3, Len(bs)))

\* base64.b64decode(...) then np.frombuffer(...): the chunk, or an error
Decoded(ev) ==
    LET d == GetDelta(ev)
    IN  IF d.valid /\ Len(d.data) % 2 = 0
        THEN [ok |-> TRUE, chunk |-> Int16s(d.data)]
        ELSE [ok |-> FALSE, chunk |-> <<>>]

\* What the loop does to the queue when item_id differs from
\* last_audio_item_id: nothing (only last_audio_item_id is updated).
QueueFlushedOnItemChange(q, changed) == IF changed THEN <<>> ELSE q
QueueOnItemChange(q, changed) == q

\* After the `break` on a JSONDecodeError: the enclosing `while True`
\* starts the next `async for` over the same connection.
AfterMalformedEnded == "ended"
AfterMalformed == "running"

\* The if/elif chain on event.get("type"): the branch taken, "none" when
\* no test matches (there is no else).
BranchElseDone(ty) ==
    CASE ty = AudioDelta -> "audio"
      [] ty = TranscriptDelta -> "transcript"
      [] OTHER -> "done"
Branch(ty) ==
    CASE ty = AudioDelta -> "audio"
      [] ty = TranscriptDelta -> "transcript"
      [] ty = ResponseDone -> "done"
      [] OTHER -> "none"

\* One read of the `async for`; `raw` is the payload read.
Reads(raw) ==
    /\ rpc = "running"
    /\ Len(received) < MaxEvents
    /\ raw \in PayloadsAt(Len(received) + 1)
    /\ received' = Append(received, raw)

\* json.loads raises JSONDecodeError: logged, `break`, and the while loop
\* sets transcript = "" and iterates the connection again.
RecvMalformed ==
    \E raw \in PayloadsAt(Len(received) + 1) :
        /\ Reads(raw)
        /\ ~raw.json
        /\ transcript' = <<>>
        /\ rpc' = AfterMalformed
        /\ UNCHANGED <<dispatched, emitted, lastItem>>
        /\ UNCHANGED <<pvars, lvars, cvars, svars, qvars, fvars, jvars,
                       nvars, hvars>>

\* The parsed value is not an object: event.get raises AttributeError,
\* caught by `except Exception`; the finally block runs and the coroutine
\* returns.
RecvNonObject ==
    \E raw \in PayloadsAt(Len(received) + 1) :
        /\ Reads(raw)
        /\ raw.json /\ ~raw.object
        /\ rpc' = "ended"
        /\ UNCHANGED <<dispatched, transcript, emitted, lastItem>>
        /\ UNCHANGED <<pvars, lvars, cvars, svars, qvars, fvars, jvars,
                       nvars, hvars>>

\* response.audio.delta: last_audio_item_id is updated, the delta is
\* decoded and handed to audio_player.add_data; a delta that does not
\* decode raises, which ends the coroutine.
RecvAudioDelta ==
    \E raw \in PayloadsAt(Len(received) + 1) :
        /\ Reads(raw)
        /\ raw.json /\ raw.object /\ Branch(raw.type) = "audio"
        /\ dispatched' = Append(dispatched, Len(received) + 1)
        /\ lastItem' = raw.item_id
        /\ LET q == QueueOnItemChange(queue, raw.item_id # lastItem)
               r == Decoded(raw)
           IN  IF r.ok
               THEN /\ queue' = Append(q, r.chunk)
                    /\ playing' = TRUE
                    /\ active' = IF playing THEN active ELSE TRUE
                    /\ rpc' = "running"
               ELSE /\ queue' = q
                    /\ rpc' = "ended"
                    /\ UNCHANGED <<playing, active>>
        /\ UNCHANGED <<transcript, emitted>>
        /\ UNCHANGED <<cbpc, cbFrames, cbData, ctlpc, lastCtl, pushed, out,
                       preStop, stopped>>
        /\ UNCHANGED <<lvars, cvars, svars, qvars, fvars, jvars, nvars, hvars>>

\* response.audio_transcript.delta: transcript += event.get("delta", "")
RecvTranscriptDelta ==
    \E raw \in PayloadsAt(Len(received) + 1) :
        /\ Reads(raw)
        /\ raw.json /\ raw.object /\ Branch(raw.type) = "transcript"
        /\ dispatched' = Append(dispatched, Len(received) + 1)
        /\ transcript' = transcript \o GetDelta(raw).data
        /\ UNCHANGED <<rpc, emitted, lastItem>>
        /\ UNCHANGED <<pvars, lvars, cvars, svars, qvars, fvars, jvars,
                       nvars, hvars>>

\* response.done: the transcript is printed, `break`, and the while loop
\* sets transcript = "" and iterates the connection again.
RecvDone ==
    \E raw \in PayloadsAt(Len(received) + 1) :
        /\ Reads(raw)
        /\ raw.json /\ raw.object /\ Branch(raw.type) = "done"
        /\ dispatched' = Append(dispatched, Len(received) + 1)
        /\ emitted' = Append(emitted, transcript)
        /\ transcript' = <<>>
        /\ UNCHANGED <<rpc, lastItem>>
        /\ UNCHANGED <<pvars, lvars, cvars, svars, qvars, fvars, jvars,
                       nvars, hvars>>

\* Any other type: no branch of the if/elif chain matches.
RecvOther ==
    \E raw \in PayloadsAt(Len(received) + 1) :
        /\ Reads(raw)
        /\ raw.json /\ raw.object
        /\ Branch(raw.type) = "none"
        /\ dispatched' = Append(dispatched, Len(received) + 1)
        /\ UNCHANGED <<rpc, transcript, emitted, lastItem>>
        /\ UNCHANGED <<pvars, lvars, cvars, svars, qvars, fvars, jvars,
                       nvars, hvars>>

NextRecv ==
    \/ RecvMalformed \/ RecvNonObject \/ RecvAudioDelta
    \/ RecvTranscriptDelta \/ RecvDone \/ RecvOther

SpecRecv == Init /\ [][NextRecv]_vars

\* ------------------------------------------- AsyncVoiceLiveConnection.send
\* The n-th message of caller c on the wire: one text frame, written here
\* as its header and its payload.
Frame(c, n) ==
    << [by |-> c, n |-> n, part |-> "header"],
       [by |-> c, n |-> n, part |-> "payload"] >>

\* What self._connection.send(message) has written when it first can
\* suspend: a str message is one unfragmented frame, which the websockets
\* connection writes in one transport write before it waits for the
\* write buffer to drain.
WrittenHeaderOnly(c, n) == SubSeq(Frame(c, n), 1, 1)
Written(c, n) == Frame(c, n)

\* What is left of the frame to write when the send resumes.
Unwritten(c, n) == SubSeq(Frame(c, n), Len(Written(c, n)) + 1, 2)

\* connection.send(message): `await self._connection.send(message)`, with
\* no lock of AsyncVoiceLiveConnection taken.  The underlying send either
\* returns without suspending or suspends the caller.
ChanSend ==
    \E c \in Callers :
        /\ spc[c] = "idle"
        /\ sent[c] < MaxSends
        /\ sent' = [sent EXCEPT ![c] = @ + 1]
        /\ wire' = wire \o Written(c, sent[c] + 1)
        /\ \E suspends \in BOOLEAN :
              spc' = [spc EXCEPT ![c] =
                        IF suspends \/ Unwritten(c, sent[c] + 1) # <<>>
                        THEN "in_send" ELSE "idle"]
        /\ UNCHANGED <<cvars, pvars, lvars, rvars, qvars, fvars, jvars,
                       nvars, hvars>>

\* The suspended send resumes and returns to the caller.
ChanSendResume ==
    \E c \in Callers :
        /\ spc[c] = "in_send"
        /\ wire' = wire \o Unwritten(c, sent[c])
        /\ spc' = [spc EXCEPT ![c] = "idle"]
        /\ UNCHANGED sent
        /\ UNCHANGED <<cvars, pvars, lvars, rvars, qvars, fvars, jvars,
                       nvars, hvars>>

NextChannel == ChanSend \/ ChanSendResume

SpecChannel == Init /\ [][NextChannel]_vars

\* ------------------------------------------- capture loop: numbered frames
\* The device captures the next frame; a frame that finds the buffer full
\* is lost (input overflow).
CapDeliver ==
    /\ capNext < MaxCaptured
    /\ capNext' = capNext + 1
    /\ capBuf' = IF Len(capBuf) < MaxAvail
                 THEN Append(capBuf, capNext + 1) ELSE capBuf
    /\ UNCHANGED <<lpc, sendLog>>
    /\ UNCHANGED <<cvars, pvars, lvars, rvars, svars, fvars, jvars,
                   nvars, hvars>>

\* Where the loop is while `await connection.send(data_json)` is pending:
\* the coroutine is suspended in it and reads no further frame.
WhileSendPendingPolls == "poll"
WhileSendPending == "sending"

Logged(frame, state) == [frame |-> frame, state |-> state]

\* One iteration with a full frame available: stream.read returns the
\* oldest buffered frame, which is encoded and handed to connection.send;
\* the send completes at once, suspends, or raises (the loop breaks).
CapReadSend ==
    /\ lpc = "poll"
    /\ capBuf # <<>>
    /\ capBuf' = Tail(capBuf)
    /\ \/ /\ sendLog' = Append(sendLog, Logged(Head(capBuf), "completed"))
          /\ lpc' = "poll"
       \/ /\ sendLog' = Append(sendLog, Logged(Head(capBuf), "started"))
          /\ lpc' = WhileSendPending
       \/ /\ sendLog' = Append(sendLog, Logged(Head(capBuf), "failed"))
          /\ lpc' = "ended"
    /\ UNCHANGED capNext
    /\ UNCHANGED <<cvars, pvars, lvars, rvars, svars, fvars, jvars,
                   nvars, hvars>>

\* stream.read raises: except Exception, finally; nothing is sent.
CapReadFails ==
    /\ lpc = "poll"
    /\ capBuf # <<>>
    /\ lpc' = "ended"
    /\ UNCHANGED <<capNext, capBuf, sendLog>>
    /\ UNCHANGED <<cvars, pvars, lvars, rvars, svars, fvars, jvars,
                   nvars, hvars>>

\* The pending send completes, and the loop goes on, or raises, and the
\* loop breaks.
CapSendDone ==
    /\ lpc = "sending"
    /\ \E ok \in BOOLEAN :
          /\ sendLog' = [sendLog EXCEPT ![Len(sendLog)].state =
                            IF ok THEN "completed" ELSE "failed"]
          /\ lpc' = IF ok THEN "poll" ELSE "ended"
    /\ UNCHANGED <<capNext, capBuf>>
    /\ UNCHANGED <<cvars, pvars, lvars, rvars, svars, fvars, jvars,
                   nvars, hvars>>

NextCapture == CapDeliver \/ CapReadSend \/ CapReadFails \/ CapSendDone

SpecCapture == Init /\ [][NextCapture]_vars

\* ------------------------------------------------------ AsyncAzureVoiceLive
\* azure_endpoint after the environment fallback
ResolvedEndpoint(c) ==
    IF c.azure_endpoint = None THEN c.env_endpoint ELSE c.azure_endpoint

\* api_key after the environment fallback, which is consulted only when
\* neither a key nor a credential was passed
ResolvedKey(c) ==
    IF c.api_key = None /\ c.azure_ad_token_credential = None
    THEN c.env_api_key ELSE c.api_key

\* `if api_key is None and azure_ad_token_credential is None`
MissingCredentials(c) ==
    ResolvedKey(c) = None /\ c.azure_ad_token_credential = None

\* `if api_key and azure_ad_token_credential`
DuplicateCredentials(c) ==
    Truthy(ResolvedKey(c)) /\ Truthy(c.azure_ad_token_credential)

Failed(e) ==
    [status |-> "error", error |-> e, api_key |-> None, token |-> None,
     connection |-> 0, azure_endpoint |-> None, foundry_token |-> None]

\* __init__: the object it leaves, or the error it raises.  connection 0
\* stands for self._connection = None.
Constructed(c) ==
    IF ResolvedEndpoint(c) = None THEN Failed("ValueError: endpoint")
    ELSE IF MissingCredentials(c)
    THEN Failed("ValueError: missing credentials")
    ELSE IF DuplicateCredentials(c)
    THEN Failed("ValueError: duplicating credentials")
    ELSE IF Truthy(c.azure_ad_token_credential) /\ ~c.token_ok
    THEN Failed("get_token raised")
    ELSE [status |-> "built", error |-> "none",
          api_key |-> ResolvedKey(c),
          token |-> IF Truthy(c.azure_ad_token_credential)
                    THEN c.token ELSE None,
          connection |-> 0,
          azure_endpoint |-> ResolvedEndpoint(c),
          foundry_token |-> c.foundry_token]

Construct ==
    /\ client.status = "unbuilt"
    /\ client' = Constructed(cfg)
    /\ UNCHANGED <<cfg, conn, connectCalls, lastConnect, handshakes, entered,
                   request>>
    /\ UNCHANGED <<cvars, pvars, lvars, rvars, svars, qvars, jvars,
                   nvars, hvars>>

\* `if self._connection is not None`
AlreadyConnectedNever(c) == FALSE
AlreadyConnected(c) == c # 0

\* The arguments connect() is called with.
Models == {None, "", NotAStr, "gpt-4o"}

AgentIds == {None, "agent-1"}

\* The constructor's defaults for api_version, agent_id and project_name.
ApiVersion == "2025-05-01-preview"
SelfAgentId == None
ProjectName == None

\* An f-string's rendering of a value: None is rendered as "None".
Fmt(x) == IF x = None THEN "None" ELSE x

\* url.replace("https://", "wss://") on the endpoint
Wss(e) == IF e = "https://ep" THEN "wss://ep" ELSE e

\* The url connect() formats, by its parts: the endpoint and each query
\* parameter in source order.
UrlOf(c, model, agent_id) ==
    [base |-> Wss(c.azure_endpoint),
     api_version |-> ApiVersion,
     model |-> model,
     agent_id |-> Fmt(IF Truthy(agent_id) THEN agent_id ELSE SelfAgentId),
     agent_project_name |-> Fmt(ProjectName),
     agent_access_token |-> Fmt(c.foundry_token),
     authorization_bearer |-> Fmt(c.token)]

\* One header: its name and its value, a scheme and a secret for the two
\* authorization headers and a request id for the third.
Header(name, scheme, secret, id) ==
    [name |-> name, scheme |-> scheme, secret |-> secret, id |-> id]

\* auth_header: the bearer header if self._token is truthy, else api-key
AuthHeaderKeyOnly(c) == {Header("api-key", "", c.api_key, 0)}
AuthHeader(c) ==
    IF Truthy(c.token)
    THEN {Header("Authorization", "Bearer", c.token, 0)}
    ELSE {Header("api-key", "", c.api_key, 0)}

\* headers: the request id (uuid4, here the number of the call) and the
\* authorization header
HeadersOf(c, id) ==
    {Header("x-ms-client-request-id", "", "", id)} \cup AuthHeader(c)

\* The first connection object not yet created.
FreeConn == CHOOSE i \in 1..MaxConns :
               conn[i] = "none" /\ \A k \in 1..(i - 1) : conn[k] # "none"

\* connect(model): the guards in source order, then a new
\* AsyncVoiceLiveConnection is stored in self._connection and returned.
Connect ==
    /\ client.status = "built"
    /\ connectCalls < MaxCalls
    /\ connectCalls' = connectCalls + 1
    /\ \E model \in Models, agent_id \in AgentIds :
          IF AlreadyConnected(client.connection)
          THEN /\ lastConnect' = "ValueError: already connected"
               /\ UNCHANGED <<client, conn, request>>
          ELSE IF ~Truthy(model)
          THEN /\ lastConnect' = "ValueError: model required"
               /\ UNCHANGED <<client, conn, request>>
          ELSE IF model = NotAStr
          THEN /\ lastConnect' = "TypeError"
               /\ UNCHANGED <<client, conn, request>>
          ELSE /\ \E i \in 1..MaxConns : conn[i] = "none"
               /\ lastConnect' = "returned"
               /\ conn' = [conn EXCEPT ![FreeConn] = "created"]
               /\ request' = [request EXCEPT ![FreeConn] =
                      [url |-> UrlOf(client, model, agent_id),
                       headers |-> HeadersOf(client, connectCalls'),
                       model |-> model, agent_id |-> agent_id]]
               /\ client' = [client EXCEPT !.connection = FreeConn]
    /\ UNCHANGED <<cfg, handshakes, entered>>
    /\ UNCHANGED <<cvars, pvars, lvars, rvars, svars, qvars, jvars,
                   nvars, hvars>>

\* How one ws_connect(...) can end: the connection, or an exception.
\* InvalidStatus (the server rejects the upgrade) and InvalidHandshake are
\* WebSocketException classes; a refused or unreachable socket
\* (OSError), a TLS failure (ssl.SSLError, an OSError) and the opening
\* timeout (TimeoutError) are not.
HandshakeOutcomes ==
    {"ok", "InvalidStatus", "InvalidHandshake", "OSError", "SSLError",
     "TimeoutError"}
WebSocketExceptions == {"InvalidStatus", "InvalidHandshake"}

\* `except WebSocketException as e: raise ValueError(...)`; any other
\* exception leaves __aenter__ as it is.
ConnectionError == "ValueError: failed to establish a WebSocket connection"
EnterResult(h) ==
    IF h = "ok" THEN "returned"
    ELSE IF h \in WebSocketExceptions THEN ConnectionError
    ELSE h

\* `async with` on the returned object, __aenter__: one ws_connect call;
\* the handshake succeeds, or raises and self._connection stays None.
Enter ==
    \E i \in 1..MaxConns :
        /\ conn[i] = "created"
        /\ handshakes' = [handshakes EXCEPT ![i] = @ + 1]
        /\ \E h \in HandshakeOutcomes :
              /\ conn' = [conn EXCEPT ![i] =
                             IF h = "ok" THEN "open" ELSE "failed"]
              /\ entered' = [entered EXCEPT ![i] = EnterResult(h)]
        /\ UNCHANGED <<cfg, client, connectCalls, lastConnect, request>>
        /\ UNCHANGED <<cvars, pvars, lvars, rvars, svars, qvars, jvars,
                       nvars, hvars>>

\* __aexit__: the websocket is closed and the connection object's own
\* _connection is reset; the client's _connection is not touched.
Exit ==
    \E i \in 1..MaxConns :
        /\ conn[i] = "open"
        /\ conn' = [conn EXCEPT ![i] = "closed"]
        /\ UNCHANGED <<cfg, client, connectCalls, lastConnect, handshakes,
                       entered, request>>
        /\ UNCHANGED <<cvars, pvars, lvars, rvars, svars, qvars, jvars,
                       nvars, hvars>>

NextClient == Construct \/ Connect \/ Enter \/ Exit

InitClient ==
    /\ BaseInit
    /\ cfg \in Configs /\ jparam = AgentVoiceParam /\ nbin = DefaultRun

SpecClient == InitClient /\ [][NextClient]_vars

\* ------------------------------------- AsyncVoiceLiveSessionResource.update
\* json.dumps of one value: a str becomes a JSON string, a list an array,
\* None null; a set is not JSON serializable (TypeError).
Serializable(v) == v.kind # "set"
JsonOf(v) ==
    CASE v.kind = "str" -> [kind |-> "string", str |-> v.str, seq |-> <<>>,
                            members |-> {}]
      [] v.kind = "list" -> [kind |-> "array", str |-> "", seq |-> v.seq,
                             members |-> {}]
      [] v.kind = "None" -> [kind |-> "null", str |-> "", seq |-> <<>>,
                             members |-> {}]
      [] OTHER -> v

\* json.loads of one JSON value: a string becomes a str, an array a list,
\* null None.
PyOf(j) ==
    CASE j.kind = "string" -> PyStr(j.str)
      [] j.kind = "array" -> PyList(j.seq)
      [] j.kind = "null" -> PyNone
      [] OTHER -> j

\* update(): param is built, json.dumps(param) either raises TypeError
\* (nothing is sent) or gives the text that is sent.
JsonUpdate ==
    /\ jout.status = "idle"
    /\ jout' =
          IF \A f \in JsonFields : Serializable(jparam[f])
          THEN LET text == [f \in JsonFields |-> JsonOf(jparam[f])]
               IN  [status |-> "sent", text |-> text,
                    parsed |-> [f \in JsonFields |-> PyOf(text[f])]]
          ELSE [jout EXCEPT !.status = "TypeError"]
    /\ UNCHANGED jparam
    /\ UNCHANGED <<cvars, pvars, lvars, rvars, svars, qvars, fvars, nvars,
                   hvars>>

NextJson == JsonUpdate

InitJson ==
    /\ BaseInit
    /\ cfg = AgentVoiceConfig /\ jparam \in Params /\ nbin = DefaultRun

SpecJson == InitJson /\ [][NextJson]_vars

\* ------------------------------------------------- notebook_test_runner.py
\* notebook_paths.sort(): the paths in ascending order
RECURSIVE Sorted(_)
Sorted(S) ==
    IF S = {} THEN <<>>
    ELSE LET m == CHOOSE x \in S : \A y \in S : x <= y
         IN  <<m>> \o Sorted(S \ {m})

\* execute_notebook: the status its try/except leaves in the result
StatusOf(o) ==
    CASE o = "ok" -> "success"
      [] o = "CellExecutionError" -> "failed"
      [] OTHER -> "error"

\* len([r for r in self.results if r["status"] == st])
RECURSIVE CountStatus(_, _)
CountStatus(rs, st) ==
    IF rs = <<>> THEN 0
    ELSE (IF Head(rs).status = st THEN 1 ELSE 0) + CountStatus(Tail(rs), st)

\* generate_summary (the counts and the overall status)
generate_summary(rs) ==
    IF rs = <<>>
    THEN [total_notebooks |-> 0, successful |-> 0, failed |-> 0,
          errors |-> 0, overall_status |-> "no_notebooks"]
    ELSE LET successful == CountStatus(rs, "success")
             failed == CountStatus(rs, "failed")
             errors == CountStatus(rs, "error")
         IN  [total_notebooks |-> Len(rs), successful |-> successful,
              failed |-> failed, errors |-> errors,
              overall_status |-> IF failed = 0 /\ errors = 0
                                 THEN "success" ELSE "failed"]

get_exit_code(rs) ==
    LET summary == generate_summary(rs)
    IN  IF summary.overall_status = "success" THEN 0
        ELSE IF summary.overall_status = "no_notebooks" THEN 2
        ELSE 1

\* run_all_notebooks: discover_notebooks returns the sorted list; with no
\* notebook it returns [] at once.
DiscoverNotebooks ==
    /\ npc = "start"
    /\ notebooks' = Sorted(nbin.found)
    /\ npc' = IF nbin.found = {} THEN "output" ELSE "loop"
    /\ UNCHANGED <<nbin, executed, results, exitCode>>
    /\ UNCHANGED <<cvars, pvars, lvars, rvars, svars, qvars, fvars, jvars,
                   hvars>>

\* One pass of `for notebook_path in notebooks`: execute_notebook runs the
\* notebook inside its try, every Exception ends in a status, and the
\* result is appended.
ExecuteNotebook ==
    /\ npc = "loop"
    /\ Len(results) < Len(notebooks)
    /\ nbin.under_cwd
    /\ LET nb == notebooks[Len(results) + 1]
       IN  /\ executed' = Append(executed, nb)
           /\ results' = Append(results,
                  [notebook |-> nb, status |-> StatusOf(nbin.outcome[nb])])
    /\ UNCHANGED <<nbin, npc, notebooks, exitCode>>
    /\ UNCHANGED <<cvars, pvars, lvars, rvars, svars, qvars, fvars, jvars,
                   hvars>>

\* execute_notebook builds its result before its try:
\* notebook_path.relative_to(Path.cwd()) raises ValueError for a path that
\* is not under the current directory.  Nothing catches it before main(),
\* whose `except Exception` logs it and calls sys.exit(1).
ExecuteNotebookRaises ==
    /\ npc = "loop"
    /\ Len(results) < Len(notebooks)
    /\ ~nbin.under_cwd
    /\ exitCode' = 1
    /\ npc' = "exited"
    /\ UNCHANGED <<nbin, notebooks, executed, results>>
    /\ UNCHANGED <<cvars, pvars, lvars, rvars, svars, qvars, fvars, jvars,
                   hvars>>

\* The for loop is exhausted: run_all_notebooks returns self.results.
RunAllReturns ==
    /\ npc = "loop"
    /\ Len(results) = Len(notebooks)
    /\ npc' = "output"
    /\ UNCHANGED <<nbin, notebooks, executed, results, exitCode>>
    /\ UNCHANGED <<cvars, pvars, lvars, rvars, svars, qvars, fvars, jvars,
                   hvars>>

\* main: output_results(), then sys.exit(runner.get_exit_code()).
MainExit ==
    /\ npc = "output"
    /\ exitCode' = get_exit_code(results)
    /\ npc' = "exited"
    /\ UNCHANGED <<nbin, notebooks, executed, results>>
    /\ UNCHANGED <<cvars, pvars, lvars, rvars, svars, qvars, fvars, jvars,
                   hvars>>

NextRunner ==
    \/ DiscoverNotebooks \/ ExecuteNotebook \/ ExecuteNotebookRaises
    \/ RunAllReturns \/ MainExit

InitRunner ==
    /\ BaseInit
    /\ cfg = AgentVoiceConfig /\ jparam = AgentVoiceParam
    /\ nbin \in RunInputs

SpecRunner == InitRunner /\ [][NextRunner]_vars

\* ------------------------------------------------- claims: the coordinator
\* connect() is past its two cancel() calls and has not yet handed over to
\* asyncio.run's cleanup.
PastCancel == coord \in {"Closing", "Closed"}

\* C1 (as claimed): once the first of the three activities has completed and
\* the coordinator has reacted, cancel() has been called on both of the other
\* two, whichever activity was first.
C1_Claim ==
    PastCancel => \A t \in Tasks \ {first} : cancelCalled[t]

\* The activity a trigger ends: the user's quit the cancellation watch, a
\* remote close the receive loop, a capture-device failure the capture loop.
TriggerOwner(g) ==
    CASE g = "quit" -> "keyboard_task"
      [] g = "remote" -> "receive_task"
      [] g = "device" -> "send_task"

\* C2 (as claimed): when exactly one of the three triggers (user quit, remote
\* close, capture-device failure) has occurred and the coordinator has reached
\* Closed, neither of the two activities the trigger does not end has ended
\* in any way but by cancellation.
C2_Claim ==
    \A g \in {"quit", "remote", "device"} :
        (coord \in {"Closed", "Exited"} /\ triggers = {g}) =>
            \A t \in Tasks \ {TriggerOwner(g)} :
                task[t] \in Finished => task[t] = "cancelled"

\* C3 (as claimed): after the remote side has closed the channel and the event
\* stream has ended, the receive activity is never found iterating the closed
\* channel again.
C3_Claim ==
    task["receive_task"] # "spin"

\* C4 (as claimed): after a capture-loop iteration that found no full frame,
\* the capture coroutine has given up the event-loop thread, so that the
\* other activities can take a step.
C4_Claim ==
    idlePolled => cpu # "send_task"

\* The device or transport handle an activity owns is released.
Released(t) ==
    IF t = "send_task" THEN mic = "closed" ELSE speaker = "closed"

\* C5: a cancellation requested for the capture-and-send or the
\* receive-and-dispatch activity leads to that activity having ended as
\* cancelled with its device handle released, whatever the state it was
\* cancelled in.
C5_CancelReleases ==
    \A t \in {"send_task", "receive_task"} :
        cancelReq[t] ~> (task[t] = "cancelled" /\ Released(t))

\* C5 witness: the capture activity was cancelled and has released its
\* stream with no frame available and no inbound event pending, and so has
\* the receive activity.
C5_Witness ==
    /\ cancelReq["send_task"] /\ task["send_task"] = "cancelled"
    /\ cancelReq["receive_task"] /\ task["receive_task"] = "cancelled"
    /\ mic = "closed" /\ speaker = "closed"
    /\ micAvail = 0 /\ inbox = <<>>

\* C6 (as claimed): when connect() has returned, the playback device has been
\* terminated, the capture device stopped and closed, and the channel closed.
C6_Claim ==
    coord = "Closed" =>
        /\ speaker \in {"none", "closed"}
        /\ mic \in {"none", "closed"}
        /\ chan = "closed"

\* ------------------------------------------------------ claims: the player
\* A pull's locked section is taken.
PullStep == cbpc = "idle" /\ cbpc' = "write"

\* C7: a pull of F frames from a queue holding L >= F samples takes exactly
\* the first F samples of the queued chunks' concatenation, in order, and
\* leaves exactly the other L - F in the queue, in order; those F samples
\* are what is then written to the output.
C7_PullTakesPrefix ==
    [][ /\ (PullStep /\ cbFrames' <= Len(Flat(queue))) =>
            /\ cbData' = SubSeq(Flat(queue), 1, cbFrames')
            /\ Flat(queue') =
                   SubSeq(Flat(queue), cbFrames' + 1, Len(Flat(queue)))
        /\ (cbpc = "write" /\ cbpc' = "idle") => out' = out \o cbData
      ]_vars

\* C7 witness: chunks <<1,2,3>> and <<4>> were pushed and a pull of 2 frames
\* split the first: 1,2 are taken, <<3>> is back at the head, before <<4>>.
C7_Witness ==
    /\ cbpc = "write" /\ cbFrames = 2
    /\ cbData = <<1, 2>>
    /\ queue = << <<3>>, <<4>> >>

\* C8: a pull of F frames from a queue holding L < F samples takes all L
\* queued samples, in order, followed by F - L zero samples, and leaves the
\* queue empty.
C8_PullPadsSilence ==
    [][ (PullStep /\ cbFrames' > Len(Flat(queue))) =>
            /\ cbData' = Flat(queue) \o Zeros(cbFrames' - Len(Flat(queue)))
            /\ queue' = <<>>
      ]_vars

\* C8 witness: two chunks holding samples 1 and 2 were queued and a pull of
\* 3 frames took both and padded one zero.
C8_Witness ==
    /\ cbpc = "write" /\ cbFrames = 3
    /\ cbData = <<1, 2, 0>>
    /\ queue = <<>>
    /\ pushed = <<1, 2>>

\* The samples of a sequence that are not padding.
RECURSIVE NonPad(_)
NonPad(sq) ==
    IF sq = <<>> THEN <<>>
    ELSE IF Head(sq) = 0 THEN NonPad(Tail(sq))
    ELSE <<Head(sq)>> \o NonPad(Tail(sq))

IsPrefix(a, b) == Len(a) <= Len(b) /\ a = SubSeq(b, 1, Len(a))

\* C9: as long as only pushes and pulls have been made, the samples written
\* to the output, padding removed, are a prefix of the samples pushed.
C9_OutputIsPrefix ==
    ~stopped => IsPrefix(NonPad(out), pushed)

\* C9 witness: pulls interleaved with pushes have written padding and three
\* of the four pushed samples; the fourth is still queued, split off a chunk.
C9_Witness ==
    /\ ~stopped
    /\ Len(pushed) = 4
    /\ NonPad(out) = <<1, 2, 3>>
    /\ Len(out) > 3
    /\ queue = << <<4>> >>
    /\ \E i \in 1..(Len(out) - 1) : out[i] = 0 /\ out[i + 1] # 0

\* C10: when stop() has just returned the queue is empty, and a pull that
\* starts after a stop() has returned takes no sample pushed before it.
C10_StopDiscards ==
    /\ lastCtl = "stop" => queue = <<>>
    /\ \A i \in 1..Len(cbData) : cbData[i] \notin preStop

\* C10 witness: samples 1 and 2 were pushed, stop() returned before either
\* was pulled, a push followed at once, and the next pull takes sample 3.
C10_Witness ==
    /\ preStop = {1, 2}
    /\ lastCtl = "add_data"
    /\ out = <<>>
    /\ cbpc = "write"
    /\ cbData = <<3, 0>>

\* ------------------------------------------------ claims: the player's lock
\* The statement of each thread that mutates self.queue.
MutatesQueue(t) ==
    \/ t = "producer" /\ tpc[t] = "append"
    \/ t = "stopper" /\ tpc[t] = "clear"
    \/ t = "audio" /\ tpc[t] = "drain"

\* C11: a thread that is about to mutate the playback queue (append in
\* add_data, pop and head re-insert in callback, clear in stop) holds the
\* player's lock, so no two threads are at a mutation of the queue at once.
C11_MutationUnderLock ==
    /\ \A t \in Threads : MutatesQueue(t) => lock = t
    /\ Cardinality({t \in Threads : MutatesQueue(t)}) <= 1

\* The producer is appending under the lock while the player is playing, a
\* stop() is between its locked section and its stream.stop(), and the
\* stream still makes callbacks.
C11_Witness ==
    /\ tpc["producer"] = "append"
    /\ lock = "producer"
    /\ tpc["stopper"] = "set_playing"
    /\ active
    /\ tpc["audio"] = "idle"

\* C29: whenever add_data and stop have both returned and the queue is
\* not empty, the output stream is started and playing is true.
C29_Claim ==
    (/\ tpc["producer"] = "idle"
     /\ tpc["stopper"] = "idle"
     /\ queue # <<>>)
        => active /\ playing

\* The statement of a thread that operates the output stream.
DeviceOperation(t) == tpc[t] \in {"stream_start", "stream_stop"}

\* C30: no thread is at an operation on the output stream while it holds
\* the player's lock.
C30_Claim == \A t \in Threads : DeviceOperation(t) => lock # t

\* ------------------------------------------------ claims: the receive loop
IsMalformed(p) == ~p.json
IsEvent(p) == p.json /\ p.object
Positions(sq) == {sq[i] : i \in 1..Len(sq)}

\* C12: a payload that does not parse never ends the loop, and every
\* well-formed event read after such a payload reaches the dispatch.
C12_MalformedDoesNotEnd ==
    /\ (received # <<>> /\ IsMalformed(received[Len(received)]))
           => rpc = "running"
    /\ \A i \in 1..Len(received) : \A k \in 1..Len(received) :
           (i < k /\ IsMalformed(received[i]) /\ IsEvent(received[k]))
               => k \in Positions(dispatched)

\* A malformed payload came first; the audio delta after it was pushed to
\* the player and the response.done after that printed a transcript.
C12_Witness ==
    /\ Len(received) = 3
    /\ IsMalformed(received[1])
    /\ received[2].type = AudioDelta
    /\ received[3].type = ResponseDone
    /\ dispatched = <<2, 3>>
    /\ queue = << <<2>> >>
    /\ Len(emitted) = 1
    /\ rpc = "running"

\* The fragment a payload contributes to the turn's transcript.
FragmentOf(p) ==
    IF IsEvent(p) /\ p.type = TranscriptDelta THEN GetDelta(p).data ELSE <<>>

\* The transcripts the claim expects for the payloads rcv: at each
\* response.done, all fragments since the previous response.done.
RECURSIVE ExpectedTranscripts(_, _, _)
ExpectedTranscripts(rcv, acc, outs) ==
    IF rcv = <<>> THEN outs
    ELSE LET p == Head(rcv)
         IN  IF IsEvent(p) /\ p.type = ResponseDone
             THEN ExpectedTranscripts(Tail(rcv), <<>>, Append(outs, acc))
             ELSE ExpectedTranscripts(Tail(rcv), acc \o FragmentOf(p), outs)

\* C13: the transcripts printed are, turn by turn, the concatenation in
\* receive order of all fragments received since the previous
\* response.done; after a response.done the accumulator is empty and the
\* loop is still running.
C13_Claim ==
    /\ emitted = ExpectedTranscripts(received, <<>>, <<>>)
    /\ (received # <<>> /\ IsEvent(received[Len(received)])
          /\ received[Len(received)].type = ResponseDone)
           => (transcript = <<>> /\ rpc = "running")

\* The chunks the claim expects in the queue for the payloads rcv: the
\* decoded delta of every response.audio.delta, in receive order.
RECURSIVE ExpectedChunks(_)
ExpectedChunks(rcv) ==
    IF rcv = <<>> THEN <<>>
    ELSE LET p == Head(rcv)
         IN  IF IsEvent(p) /\ p.type = AudioDelta /\ Decoded(p).ok
             THEN <<Decoded(p).chunk>> \o ExpectedChunks(Tail(rcv))
             ELSE ExpectedChunks(Tail(rcv))

\* C14: the chunks pushed to the playback queue are exactly the decoded
\* payloads of the response.audio.delta events read, in receive order,
\* also when item_id changes between deltas.
C14_ChunksInReceiveOrder == queue = ExpectedChunks(received)

\* Deltas of item_A, then of item_B, then of item_A again, the second one
\* after a response.done: all three chunks are queued in order.
C14_Witness ==
    /\ Len(received) = 4
    /\ received[1].item_id = "item_A"
    /\ received[2].type = ResponseDone
    /\ received[3].item_id = "item_B"
    /\ received[4].item_id = "item_A"
    /\ lastItem = "item_A"
    /\ queue = << <<1>>, <<3>>, <<4>> >>

\* A step that reads one more payload, and the payload it reads.
ReadStep == Len(received') = Len(received) + 1
LastRead == received'[Len(received')]

\* C23: reading an event of any type other than the three dispatched ones
\* changes neither the transcript accumulator nor the playback queue nor
\* the transcripts printed, and leaves the loop running.
C23_OtherEventIgnored ==
    [][ (/\ ReadStep
         /\ IsEvent(LastRead)
         /\ LastRead.type \notin {AudioDelta, TranscriptDelta, ResponseDone})
            => /\ transcript' = transcript
               /\ queue' = queue
               /\ emitted' = emitted
               /\ rpc' = "running"
      ]_vars

\* An event of another type was read in mid-turn: the chunk queued and
\* the fragment accumulated before it are still there.
C23_Witness ==
    /\ Len(received) = 3
    /\ received[3].type = OtherType
    /\ dispatched = <<1, 2, 3>>
    /\ queue = << <<1>> >>
    /\ transcript = <<2>>
    /\ emitted = <<>>
    /\ rpc = "running"

\* C26: reading a payload that does not parse leaves the transcript
\* accumulator unchanged.
C26_Claim == [][ (ReadStep /\ IsMalformed(LastRead))
                    => transcript' = transcript ]_vars

\* A payload that parses but cannot be decoded: not an object, or an
\* audio delta that is not base64 of whole 16-bit samples.
Undecodable(p) ==
    p.json /\ (~p.object \/ (p.type = AudioDelta /\ ~Decoded(p).ok))

\* C27: a payload that parses but cannot be decoded does not end the
\* loop.
C27_Claim ==
    (received # <<>> /\ Undecodable(received[Len(received)]))
        => rpc = "running"

\* ------------------------------------------------ claims: the send channel
\* No part of one message stands between the parts of another: what
\* follows a header on the wire is the payload of the same message, and
\* what precedes a payload is its header.
WholeFrames ==
    \A i \in 1..Len(wire) :
        /\ (wire[i].part = "header" /\ i < Len(wire))
               => wire[i + 1] = [wire[i] EXCEPT !.part = "payload"]
        /\ wire[i].part = "payload"
               => (i > 1 /\ wire[i - 1] = [wire[i] EXCEPT !.part = "header"])

C17_OneUpdateFirst ==
    /\ updates <= 1
    /\ updates = 1 <=> coord \notin {"Idle", "Connected", "Failed"}
    /\ ~unconfigured
    /\ (coord = "Configured") => ENABLED CreateTasks

\* The capture task has handed its first frame to the channel while the
\* receive task has not run yet and no inbound message has arrived.
C17_Witness ==
    /\ coord = "Streaming"
    /\ updates = 1
    /\ task["send_task"] = "sending"
    /\ task["receive_task"] = "new"
    /\ inbox = <<>>
    /\ chan = "open"

\* ------------------------------------------------ claims: the capture loop
\* C16: frames are sent in the order they were captured and none twice
\* (the frame numbers of the sends started are strictly increasing), and
\* a send is started only when every earlier send has completed.
C16_SendOrderIsCaptureOrder ==
    \A i \in 1..Len(sendLog) : \A k \in 1..Len(sendLog) :
        i < k => /\ sendLog[i].frame < sendLog[k].frame
                 /\ sendLog[i].state = "completed"

\* Frame 3 was lost to an input overflow; frames 1 and 2 are sent, the
\* send of frame 4 is pending and frame 5 waits in the device's buffer.
C16_Witness ==
    /\ Len(sendLog) = 3
    /\ sendLog[1].frame = 1 /\ sendLog[2].frame = 2
    /\ sendLog[3] = Logged(4, "started")
    /\ lpc = "sending"
    /\ capBuf = <<5>>

\* ------------------------------------------- claims: capture error handling
\* C18: no device or transport error escapes listen_and_send_audio as an
\* exception: the capture task never ends with an exception of its own.
C18_Claim == task["send_task"] # "error"

\* ---------------------------------------------- claims: AsyncAzureVoiceLive
\* A static key, or a token credential, is supplied: a usable value is
\* there after the environment fallback.
KeySupplied == Truthy(ResolvedKey(cfg))
CredentialSupplied == Truthy(cfg.azure_ad_token_credential)

\* C19: with an endpoint available (and the credential, if any, yielding
\* a token) construction succeeds if and only if exactly one of static
\* key and token credential is supplied; otherwise it raises the
\* configuration error, and no connection object exists.
C19_Claim ==
    (client.status # "unbuilt" /\ ResolvedEndpoint(cfg) # None
       /\ cfg.token_ok)
        => /\ client.status = "built" <=> (KeySupplied # CredentialSupplied)
           /\ client.status = "error"
                 => /\ client.error \in {"ValueError: missing credentials",
                                         "ValueError: duplicating credentials"}
                    /\ \A i \in 1..MaxConns : conn[i] = "none"

\* C20: a connect() call made while the client holds a connection is
\* rejected with the already-connected error and changes neither the
\* client nor any connection object; at most one connection is open.
C20_SecondConnectRejected ==
    [][ /\ (connectCalls' # connectCalls /\ client.connection # 0)
            => /\ lastConnect' = "ValueError: already connected"
               /\ client' = client
               /\ conn' = conn
        /\ Cardinality({i \in 1..MaxConns : conn'[i] = "open"}) <= 1
      ]_vars

\* The first connection is open and a second connect() has been rejected.
C20_Witness ==
    /\ connectCalls = 2
    /\ lastConnect = "ValueError: already connected"
    /\ client.connection = 1
    /\ conn = [i \in 1..MaxConns |-> IF i = 1 THEN "open" ELSE "none"]

\* C21: a connection whose handshake failed has reported the one
\* connection error, after exactly one handshake attempt.
C21_Claim ==
    \A i \in 1..MaxConns :
        conn[i] = "failed"
            => /\ entered[i] = ConnectionError
               /\ handshakes[i] = 1

\* C28: a connect() call made when the client's connection has been
\* closed, or has failed its handshake, is not rejected with the
\* already-connected error.
C28_Claim ==
    [][ (/\ connectCalls' # connectCalls
         /\ client.connection # 0
         /\ conn[client.connection] \in {"closed", "failed"})
            => lastConnect' # "ValueError: already connected"
      ]_vars

\* ---------------------------------------------------- claims: session.update
\* C22: for every admitted session, update() serializes the message and
\* parsing the text gives back the message, field for field.
C22_Claim ==
    jout.status # "idle"
        => /\ jout.status = "sent"
           /\ \A f \in JsonFields : jout.parsed[f] = jparam[f]


\* ------------------------------------------------ claims: the notebook runner
Statuses(rs) == {rs[i].status : i \in 1..Len(rs)}

\* C24: the script exits with 0 exactly when a notebook was executed and
\* every result is a success, with 1 exactly when some result is failed
\* or error, with 2 exactly when no notebook was found; and the summary's
\* successful, failed and errors add up to its total_notebooks.
C24_Claim ==
    LET summary == generate_summary(results)
    IN  /\ summary.successful + summary.failed + summary.errors
               = summary.total_notebooks
        /\ npc = "exited"
               => /\ exitCode = 0 <=> (/\ executed # <<>>
                                       /\ Statuses(results) = {"success"})
                  /\ exitCode = 1 <=> Statuses(results) \cap
                                          {"failed", "error"} # {}
                  /\ exitCode = 2 <=> nbin.found = {}

\* C25: the notebooks executed so far are distinct notebooks found, in
\* ascending path order, each with exactly one result at the same position
\* holding the status its execution ended in; and when the script exits
\* every notebook found has been executed.
C25_Claim ==
    /\ \A i \in 1..Len(executed) : executed[i] \in nbin.found
    /\ \A i, j \in 1..Len(executed) : i < j => executed[i] < executed[j]
    /\ Len(results) = Len(executed)
    /\ \A i \in 1..Len(results) :
           /\ results[i].notebook = executed[i]
           /\ results[i].status = StatusOf(nbin.outcome[executed[i]])
    /\ npc = "exited" => Len(executed) = Cardinality(nbin.found)


\* ------------------------------------------- claims: the connection request
AuthNames == {"Authorization", "api-key"}

\* C31: the headers of every connection object connect() built hold the
\* request-id header and exactly one authorization header: the bearer
\* header with the token when a token credential was supplied, the api-key
\* header with the key when a static key was supplied.
C31_OneAuthorizationHeader ==
    \A i \in 1..MaxConns :
        conn[i] # "none"
            => LET hs == request[i].headers
                   auth == {h \in hs : h.name \in AuthNames}
               IN  /\ \E h \in hs : h.name = "x-ms-client-request-id"
                   /\ Cardinality(auth) = 1
                   /\ Cardinality({h.name : h \in hs}) = Cardinality(hs)
                   /\ CredentialSupplied
                          => auth = {Header("Authorization", "Bearer",
                                            cfg.token, 0)}
                   /\ KeySupplied
                          => auth = {Header("api-key", "",
                                            ResolvedKey(cfg), 0)}

\* A client built with a token credential has made a connection object:
\* its headers are the request id and the bearer header.
C31_Witness ==
    /\ CredentialSupplied
    /\ conn[1] = "created"
    /\ request[1].headers =
           {Header("x-ms-client-request-id", "", "", 1),
            Header("Authorization", "Bearer", "tokB", 0)}

\* C32: the url of every connection object connect() built is the url any
\* client with the same endpoint would build for the same model and agent,
\* whatever its key, its credential and its tokens.
C32_Claim ==
    \A i \in 1..MaxConns :
        conn[i] # "none"
            => \A c \in Configs :
                   (/\ ResolvedEndpoint(c) = ResolvedEndpoint(cfg)
                    /\ Constructed(c).status = "built")
                       => UrlOf(Constructed(c), request[i].model,
                                request[i].agent_id) = request[i].url

====
